---- MODULE Spec2Model ----
(***************************************************************************)
(* BibliotecaPessoal (BiblioGestor): the record store of src/App.tsx, the  *)
(* book form of src/components/BookForm.tsx and the collaborator results   *)
(* of src/services/geminiService.ts, as one state machine.                 *)
(*                                                                         *)
(* JavaScript objects are functions from the keys they own to values; a    *)
(* key whose value is undefined is a key the function does not have.       *)
(* JavaScript strings that the code inspects character by character        *)
(* (titles, genre and tag labels, the raw comma separated inputs) are      *)
(* tuples of one-character strings.                                        *)
(***************************************************************************)
EXTENDS Integers, Sequences, FiniteSets, TLC

(***************************************************************************)
(* Bounds of the model.                                                    *)
(***************************************************************************)
MaxSessions == 1

MaxChanges == 1

MaxFills == 1

MaxOps == 2

MaxTime == 1

MaxLateSessions == 2

(***************************************************************************)
(* Strings.                                                                *)
(***************************************************************************)
Upper == <<"A","B","C","D","E","F","G","H","I","J","K","L","M",
           "N","O","P","Q","R","S","T","U","V","W","X","Y","Z">>

Lower == <<"a","b","c","d","e","f","g","h","i","j","k","l","m",
           "n","o","p","q","r","s","t","u","v","w","x","y","z">>

LowerChar(c) ==
  IF \E i \in 1..26 : Upper[i] = c
  THEN Lower[CHOOSE i \in 1..26 : Upper[i] = c]
  ELSE c

\* String.prototype.toLowerCase
ToLowerCase(s) == [i \in 1..Len(s) |-> LowerChar(s[i])]

RECURSIVE TrimStart(_)
TrimStart(s) ==
  IF s # <<>> /\ Head(s) = " " THEN TrimStart(Tail(s)) ELSE s

RECURSIVE TrimEnd(_)
TrimEnd(s) ==
  IF s # <<>> /\ s[Len(s)] = " " THEN TrimEnd(SubSeq(s, 1, Len(s) - 1)) ELSE s

\* String.prototype.trim
Trim(s) == TrimEnd(TrimStart(s))

\* Array.prototype.join(', ')
RECURSIVE Join(_)
Join(labels) ==
  IF labels = <<>> THEN <<>>
  ELSE IF Len(labels) = 1 THEN labels[1]
  ELSE labels[1] \o <<",", " ">> \o Join(Tail(labels))

\* String.prototype.split(',')
RECURSIVE Split(_, _)
Split(s, cur) ==
  IF s = <<>> THEN <<cur>>
  ELSE IF Head(s) = "," THEN <<cur>> \o Split(Tail(s), <<>>)
  ELSE Split(Tail(s), Append(cur, Head(s)))

IsTruthyStr(s) == s # <<>>

\* raw.split(',').map(s => s.trim()).filter(Boolean)
ParseLabels(raw) ==
  LET parts == Split(raw, <<>>)
      trimmed == [i \in 1..Len(parts) |-> Trim(parts[i])]
  IN  SelectSeq(trimmed, IsTruthyStr)

(***************************************************************************)
(* Objects.                                                                *)
(***************************************************************************)
Has(o, f) == f \in DOMAIN o

\* { ...a, ...b }
Spread(a, b) == b @@ a

Without(o, f) == [k \in DOMAIN o \ {f} |-> o[k]]

\* { ...o, [f]: src[f] }  (an undefined src[f] leaves o without a readable f)
CopyField(o, src, f) ==
  IF Has(src, f) THEN (f :> src[f]) @@ o ELSE Without(o, f)

(***************************************************************************)
(* types: the enums of the Book record.                                    *)
(***************************************************************************)
UNREAD == "Nao Lido"

READING == "Lendo"

COMPLETED == "Lido"

ABANDONED == "Abandonado"

BookStatus == {UNREAD, READING, COMPLETED, ABANDONED}

PHYSICAL == "Fisico"

ME == "Eu"

SPOUSE == "Esposa"

SHARED == "Compartilhado"

Owner == {ME, SPOUSE, SHARED}

ViewState == {"dashboard", "library", "wishlist", "add"}

(***************************************************************************)
(* Texts used as inputs.                                                   *)
(***************************************************************************)
TDune == <<"D","u","n","e">>

TDUNE == <<"D","U","N","E">>

TDUNEsp == <<"D","U","N","E"," ">>

TBrave == <<"B","r","a","v","e"," ","N","e","w"," ","W","o","r","l","d">>

TEmpty == <<>>

TBD == <<"T","B","D">>

Herbert == <<"H","e","r","b","e","r","t">>

SciFi == <<"S","c","i","-","F","i">>

Classic == <<"C","l","a","s","s","i","c">>

ImportadoViaIA == <<"I","m","p","o","r","t","a","d","o"," ","v","i","a"," ","I","A">>

(***************************************************************************)
(* Book records.                                                           *)
(***************************************************************************)
T1984 == <<"1","9","8","4">>

Orwell == <<"O","r","w","e","l","l">>

\* The keys of a Book, in the order a serialization lists them.
BookKeys == <<"id", "title", "author", "genre", "tags", "description",
              "totalPages", "currentPage", "status", "format", "owner",
              "location", "isWishlist", "addedAt">>

\* data/legacyLibrary: the fixed dataset offered by the demo import.
LegacyLibrary ==
  << [id |-> <<"legacy", 1>>, title |-> TDune, author |-> Herbert,
      genre |-> <<SciFi>>, tags |-> <<Classic>>,
      totalPages |-> 2, currentPage |-> 1, status |-> READING,
      format |-> PHYSICAL, owner |-> ME, location |-> "Estante",
      isWishlist |-> FALSE, addedAt |-> 1],
     [id |-> <<"legacy", 2>>, title |-> TBrave, author |-> TBD,
      genre |-> <<>>, tags |-> <<>>,
      totalPages |-> 0, currentPage |-> 0, status |-> UNREAD,
      format |-> PHYSICAL, owner |-> SPOUSE,
      isWishlist |-> TRUE, addedAt |-> 1] >>

\* A collection a previous run of the application left in the slot: a book
\* added through the form, and the first legacy record after the user edited
\* its title.
StoredBooks ==
  << [id |-> <<"uuid", 0>>, title |-> T1984, author |-> Orwell,
      genre |-> <<Classic>>, tags |-> <<>>, description |-> "",
      totalPages |-> 2, currentPage |-> 2, status |-> COMPLETED,
      format |-> PHYSICAL, owner |-> ME, location |-> "",
      isWishlist |-> FALSE, addedAt |-> 0],
     [LegacyLibrary[1] EXCEPT !.title = TDUNEsp] >>

(***************************************************************************)
(* The durable slot: localStorage['biblio-gestor-data'].                   *)
(*   absent  - getItem returns null                                        *)
(*   empty   - the empty string                                            *)
(*   garbage - text JSON.parse rejects                                     *)
(*   object  - JSON text of a value that is not an array                   *)
(*   array   - JSON text of an array of records                            *)
(***************************************************************************)
PresentKeys(o) == SelectSeq(BookKeys, LAMBDA k : Has(o, k))

StringifyBookRequiredKeys(o) ==
  LET ks == SelectSeq(BookKeys, LAMBDA k :
                Has(o, k) /\ k \notin {"description", "location"})
  IN  [i \in 1..Len(ks) |-> <<ks[i], o[ks[i]]>>]

\* JSON.stringify of one record: the key/value pairs of the keys it owns.
StringifyBook(o) ==
  LET ks == PresentKeys(o)
  IN  [i \in 1..Len(ks) |-> <<ks[i], o[ks[i]]>>]

\* JSON.parse of one record.
ParseBook(pairs) ==
  [k \in {pairs[i][1] : i \in 1..Len(pairs)} |->
     pairs[CHOOSE i \in 1..Len(pairs) : pairs[i][1] = k][2]]

\* JSON.stringify(books)
Stringify(bs) ==
  [kind |-> "array", items |-> [i \in 1..Len(bs) |-> StringifyBook(bs[i])]]

\* JSON.parse(saved), for text that parses to an array of records
Parse(s) == [i \in 1..Len(s.items) |-> ParseBook(s.items[i])]

InitialSlots ==
  { [kind |-> "absent", items |-> <<>>],
    [kind |-> "empty", items |-> <<>>],
    [kind |-> "garbage", items |-> <<>>],
    [kind |-> "object", items |-> <<>>],
    Stringify(<<>>),
    Stringify(StoredBooks) }

(***************************************************************************)
(* State.                                                                  *)
(***************************************************************************)
VARIABLES
  pc,            \* position of the App component: mount effects, then running
  slot,          \* the durable slot
  loaded,        \* the value the load effect handed to setBooks, if any
  books,         \* useState<Book[]>
  view,          \* useState<ViewState>
  editingBook,   \* useState<Book | undefined>: <<>> or <<book>>
  form,          \* the mounted BookForm instance: <<>> or <<its state>>
  enrichFlight,  \* BookForm instances awaiting enrichBookData
  isImporting,   \* useState(false)
  imageFlight,   \* the upload awaiting FileReader / parseWishlistImage: <<>>, or
                 \* <<the books its handler closed over>>
  nextUuid,      \* crypto.randomUUID: the next fresh value
  now,           \* Date.now()
  opened,        \* how many BookForm instances were mounted
  ops,           \* how many imports, uploads, deletes and tips were asked
  loadingRecs,   \* useState(false)
  recsFlight,    \* the getRecommendations call in flight: <<>>, or
                 \* <<whether the books it was given were none>>
  recommendations, \* useState<string[]>([])
  last           \* the last step taken and what it worked on

vars == <<pc, slot, loaded, books, view, editingBook, form,
          enrichFlight, isImporting, imageFlight, nextUuid, now,
          opened, ops, loadingRecs, recsFlight, recommendations, last>>

\* The state generateRecs works on.
recsVars == <<loadingRecs, recsFlight, recommendations>>

Init ==
  /\ pc = "mount"
  /\ slot \in InitialSlots
  /\ loaded = [kind |-> "none", items |-> <<>>]
  /\ books = <<>>
  /\ view = "dashboard"
  /\ editingBook = <<>>
  /\ form = <<>>
  /\ enrichFlight = {}
  /\ isImporting = FALSE
  /\ imageFlight = <<>>
  /\ nextUuid = 1
  /\ now = 1
  /\ opened = 0
  /\ ops = 0
  /\ loadingRecs = FALSE
  /\ recsFlight = <<>>
  /\ recommendations = <<>>
  /\ last = [op |-> "init"]

(***************************************************************************)
(* App: the mount effects.                                                 *)
(***************************************************************************)
\* if (saved)
Truthy(s) == s.kind \notin {"absent", "empty"}

\* useEffect(() => { ... setBooks(JSON.parse(saved)) }, [])
LoadEffect ==
  /\ pc = "mount"
  /\ IF ~Truthy(slot)
     THEN /\ pc' = "save"
          /\ UNCHANGED <<loaded, slot>>
     ELSE IF slot.kind = "garbage"
     THEN \* JSON.parse throws inside the effect; nothing catches it.  The
          \* save effect of the same commit may still have run.
          /\ pc' = "crashed"
          /\ slot' \in {slot, Stringify(books)}
          /\ UNCHANGED loaded
     ELSE /\ pc' = "save"
          /\ loaded' = [kind |-> slot.kind, items |-> slot.items]
          /\ UNCHANGED slot
  /\ last' = [op |-> "load"]
  /\ UNCHANGED recsVars
  /\ UNCHANGED <<books, view, editingBook, form, enrichFlight, isImporting,
                 imageFlight, nextUuid, now, opened, ops>>

\* useEffect(() => { localStorage.setItem(..., JSON.stringify(books)) }, [books])
\* as it runs in the mount commit, where books is still the initial [].
MountSaveEffect ==
  /\ pc = "save"
  /\ slot' = Stringify(books)
  /\ pc' = IF loaded.kind = "none" THEN "running" ELSE "rerender"
  /\ last' = [op |-> "mountSave"]
  /\ UNCHANGED recsVars
  /\ UNCHANGED <<loaded, books, view, editingBook, form, enrichFlight,
                 isImporting, imageFlight, nextUuid, now, opened, ops>>

\* The render that setBooks(JSON.parse(saved)) scheduled, and the save effect
\* that follows it.  books.filter / books.length throw on a non-array.
LoadedRender ==
  /\ pc = "rerender"
  /\ IF loaded.kind = "array"
     THEN /\ books' = Parse(loaded)
          /\ slot' = Stringify(books')
          /\ pc' = "running"
     ELSE /\ pc' = "crashed"
          /\ UNCHANGED <<books, slot>>
  /\ loaded' = [kind |-> "none", items |-> <<>>]
  /\ last' = [op |-> "loaded", kind |-> loaded.kind]
  /\ UNCHANGED recsVars
  /\ UNCHANGED <<view, editingBook, form, enrichFlight, isImporting,
                 imageFlight, nextUuid, now, opened, ops>>

(***************************************************************************)
(* App: what the current view offers.                                      *)
(***************************************************************************)
RecentCount == 4

LegacyButtonLimit == 50

IsWishlist(b) == Has(b, "isWishlist") /\ b.isWishlist

\* filteredBooks, with the search box empty: every string includes ''.
InFilteredBooks(b) ==
  /\ ~(view = "wishlist" /\ ~IsWishlist(b))
  /\ ~(view = "library" /\ IsWishlist(b))

IsRecentCandidate(b) == b.status \in {READING, COMPLETED}

\* books.filter(...).sort((a, b) => b.addedAt - a.addedAt).slice(0, 4)
InRecentReads(i) ==
  /\ IsRecentCandidate(books[i])
  /\ Cardinality({ j \in 1..Len(books) :
        /\ IsRecentCandidate(books[j])
        /\ \/ books[j].addedAt > books[i].addedAt
           \/ (books[j].addedAt = books[i].addedAt /\ j < i) }) < RecentCount

\* renderBookCard is applied to books[i] in the current view.
CardVisible(i) ==
  \/ view \in {"library", "wishlist"} /\ InFilteredBooks(books[i])
  \/ view = "dashboard" /\ InRecentReads(i)

\* The values Date.now() can return at this step.
Times == { t \in now..MaxTime : t <= now + 1 }

(***************************************************************************)
(* BookForm: component state.                                              *)
(***************************************************************************)
PageFields == {"totalPages", "currentPage"}

IsNotLibraryMode(v) == v # "library"

\* isWishlistMode={view === 'wishlist'}, evaluated where view === 'add'.
IsWishlistMode(v) == v = "wishlist"

DefaultFormData(isWishlistMode) ==
  [title |-> TEmpty, author |-> TEmpty, genre |-> <<>>, tags |-> <<>>,
   status |-> UNREAD, format |-> PHYSICAL, owner |-> ME,
   totalPages |-> 0, currentPage |-> 0, isWishlist |-> isWishlistMode,
   location |-> "", description |-> ""]

\* The useState initialisers of a BookForm mounted with initialData.
MountForm(initialData, inst, v) ==
  [inst |-> inst,
   formData |-> IF initialData # <<>> THEN initialData[1]
                ELSE DefaultFormData(IsWishlistMode(v)),
   rawGenres |-> IF initialData # <<>> THEN Join(initialData[1].genre) ELSE <<>>,
   rawTags |-> IF initialData # <<>> THEN Join(initialData[1].tags) ELSE <<>>,
   loadingAI |-> FALSE,
   strPages |-> {},      \* the page fields whose value is typed text
   changes |-> 0,
   fills |-> 0,
   merged |-> <<>>,      \* the last enrichment merge, until the next edit
   openedFrom |-> "card"] \* where the button that mounted the form was

\* Number(x) for the text a type="number" input can hold.
ParseNumber(text) ==
  CASE text = "" -> 0
    [] text = "-1" -> -1
    [] text = "0" -> 0
    [] text = "1" -> 1
    [] text = "2" -> 2
    [] text = "3" -> 3

NaN == "NaN"

\* Number(formData[f])
NumberOf(f, fd, strPages) ==
  IF ~Has(fd, f) THEN NaN
  ELSE IF f \in strPages THEN ParseNumber(fd[f])
  ELSE fd[f]

\* The value the type="number" input of field f shows is the empty string.
InputEmpty(f, fd, strPages) ==
  \/ ~Has(fd, f)
  \/ f \in strPages /\ fd[f] = ""

PageInputValidNoMin(f, fd, strPages) == TRUE

\* <input type="number" min="0">: constraint validation at submit.
PageInputValid(f, fd, strPages) ==
  \/ InputEmpty(f, fd, strPages)
  \/ NumberOf(f, fd, strPages) >= 0

\* <input type="text" name="title" required>
TitleInputValid(fd) == Has(fd, "title") /\ fd.title # TEmpty

\* The browser dispatches submit only when every input is valid.
FormValid(f) ==
  /\ TitleInputValid(f.formData)
  /\ \A p \in PageFields : PageInputValid(p, f.formData, f.strPages)

\* const finalBook = { id: ..., addedAt: ..., ...formData, genre: ..., ... }
FinalBook(f, initialData, uuid, t) ==
  LET head == [id |-> IF initialData # <<>> THEN initialData[1].id ELSE uuid,
               addedAt |-> IF initialData # <<>> /\ initialData[1].addedAt # 0
                           THEN initialData[1].addedAt ELSE t]
      tail == [genre |-> ParseLabels(f.rawGenres),
               tags |-> ParseLabels(f.rawTags),
               totalPages |-> NumberOf("totalPages", f.formData, f.strPages),
               currentPage |-> NumberOf("currentPage", f.formData, f.strPages)]
  IN  Spread(Spread(head, f.formData), tail)

(***************************************************************************)
(* App: navigation.                                                        *)
(***************************************************************************)
\* NavItem onClick: setView(id); setEditingBook(undefined)
Navigate(id) ==
  /\ pc = "running"
  /\ id \in {"dashboard", "library", "wishlist"}
  /\ view' = id
  /\ editingBook' = <<>>
  /\ form' = <<>>
  /\ last' = [op |-> "other"]
  /\ UNCHANGED recsVars
  /\ UNCHANGED <<pc, slot, loaded, books, enrichFlight, isImporting,
                 imageFlight, nextUuid, now, opened, ops>>

\* "Ver tudo" on the dashboard: setView('library')
VerTudo ==
  /\ pc = "running"
  /\ view = "dashboard"
  /\ view' = "library"
  /\ last' = [op |-> "other"]
  /\ UNCHANGED recsVars
  /\ UNCHANGED <<pc, slot, loaded, books, editingBook, form, enrichFlight,
                 isImporting, imageFlight, nextUuid, now, opened, ops>>

\* "Adicionar": setEditingBook(undefined); setView('add'); at most max
\* BookForm instances are mounted in a run.
OpenAddUpTo(max) ==
  /\ pc = "running"
  /\ view # "add"
  /\ opened < max
  /\ opened' = opened + 1
  /\ editingBook' = <<>>
  /\ view' = "add"
  /\ form' = <<[MountForm(<<>>, opened + 1, "add") EXCEPT !.openedFrom = view]>>
  /\ last' = [op |-> "other"]
  /\ UNCHANGED recsVars
  /\ UNCHANGED <<pc, slot, loaded, books, enrichFlight, isImporting,
                 imageFlight, nextUuid, now, ops>>

OpenAdd == OpenAddUpTo(MaxSessions)

\* "Editar" on a card: setEditingBook(book); setView('add')
OpenEditUpTo(i, max) ==
  /\ pc = "running"
  /\ i \in 1..Len(books)
  /\ CardVisible(i)
  /\ opened < max
  /\ opened' = opened + 1
  /\ editingBook' = <<books[i]>>
  /\ view' = "add"
  /\ form' = <<MountForm(<<books[i]>>, opened + 1, "add")>>
  /\ last' = [op |-> "other"]
  /\ UNCHANGED recsVars
  /\ UNCHANGED <<pc, slot, loaded, books, enrichFlight, isImporting,
                 imageFlight, nextUuid, now, ops>>

OpenEdit(i) == OpenEditUpTo(i, MaxSessions)

\* onCancel={() => setView('library')}
Cancel ==
  /\ pc = "running"
  /\ view = "add"
  /\ view' = "library"
  /\ form' = <<>>
  /\ last' = [op |-> "other"]
  /\ UNCHANGED recsVars
  /\ UNCHANGED <<pc, slot, loaded, books, editingBook, enrichFlight,
                 isImporting, imageFlight, nextUuid, now, opened, ops>>

(***************************************************************************)
(* BookForm: editing.                                                      *)
(***************************************************************************)
\* What the user can put into the inputs wired to handleChange.
ChangeValues(name) ==
  CASE name = "title" -> {TEmpty, TDUNE, TDUNEsp}
    [] name = "author" -> {Herbert}
    [] name = "owner" -> {SPOUSE}
    [] name = "status" -> {COMPLETED}
    [] name = "location" -> {"Kindle"}
    [] name = "description" -> {"resumo"}
    [] name = "totalPages" -> {"", "-1", "3"}
    [] name = "currentPage" -> {"", "1"}

ChangeNames == {"title", "author", "owner", "status", "location",
                "description", "totalPages", "currentPage"}

RawValues == { <<>>, SciFi \o <<",", " ">> \o Classic }

\* setFormData(prev => ({ ...prev, [name]: value }))
HandleChange(name, value) ==
  /\ pc = "running"
  /\ form # <<>>
  /\ form[1].changes < MaxChanges
  /\ name \in ChangeNames
  /\ value \in ChangeValues(name)
  /\ form' = <<[form[1] EXCEPT
        !.formData = Spread(@, name :> value),
        !.strPages = IF name \in PageFields THEN @ \cup {name} ELSE @,
        !.changes = @ + 1,
        !.merged = <<>>]>>
  /\ last' = [op |-> "other"]
  /\ UNCHANGED recsVars
  /\ UNCHANGED <<pc, slot, loaded, books, view, editingBook, enrichFlight,
                 isImporting, imageFlight, nextUuid, now, opened, ops>>

\* onChange={(e) => setRawGenres(e.target.value)} and the same for tags
SetRaw(which, value) ==
  /\ pc = "running"
  /\ form # <<>>
  /\ form[1].changes < MaxChanges
  /\ which \in {"rawGenres", "rawTags"}
  /\ value \in RawValues
  /\ form' = <<[form[1] EXCEPT
        ![which] = value,
        !.changes = @ + 1,
        !.merged = <<>>]>>
  /\ last' = [op |-> "other"]
  /\ UNCHANGED recsVars
  /\ UNCHANGED <<pc, slot, loaded, books, view, editingBook, enrichFlight,
                 isImporting, imageFlight, nextUuid, now, opened, ops>>

(***************************************************************************)
(* BookForm: AI enrichment.                                                *)
(***************************************************************************)
\* Results of enrichBookData other than null: a Partial<Book>.  The response
\* schema names title, author, genre, tags, description and totalPages (an
\* integer); the third result also carries the keys handleMagicFill guards.
EnrichResults ==
  { [title |-> TDune, author |-> Herbert, genre |-> <<SciFi>>,
     tags |-> <<Classic>>, description |-> "sinopse", totalPages |-> 3],
    [title |-> TDune, author |-> Herbert, totalPages |-> 3],
    [title |-> TDune, genre |-> <<SciFi>>, status |-> COMPLETED,
     owner |-> SHARED, location |-> "AI"],
    [title |-> TDune, author |-> Herbert, genre |-> <<SciFi>>,
     tags |-> <<Classic>>, totalPages |-> -1] }

\* handleMagicFill up to the await.
MagicFillStart ==
  /\ pc = "running"
  /\ form # <<>>
  /\ Has(form[1].formData, "title") /\ form[1].formData.title # TEmpty
  /\ ~form[1].loadingAI
  /\ form[1].fills < MaxFills
  /\ form' = <<[form[1] EXCEPT !.loadingAI = TRUE, !.fills = @ + 1]>>
  /\ enrichFlight' = enrichFlight \cup {form[1].inst}
  /\ last' = [op |-> "other"]
  /\ UNCHANGED recsVars
  /\ UNCHANGED <<pc, slot, loaded, books, view, editingBook, isImporting,
                 imageFlight, nextUuid, now, opened, ops>>

MergeEnrichmentUnprotected(prev, enriched) == Spread(prev, enriched)

\* { ...prev, ...enriched, status: prev.status, owner: prev.owner,
\*   location: prev.location }
MergeEnrichment(prev, enriched) ==
  CopyField(CopyField(CopyField(Spread(prev, enriched),
     prev, "status"), prev, "owner"), prev, "location")

\* enriched.genre?.join(', ') || ''
RawOf(enriched, f) == IF Has(enriched, f) THEN Join(enriched[f]) ELSE <<>>

\* What a submit of form state f stores, apart from id and addedAt.
WouldSave(f) ==
  Without(Without(FinalBook(f, <<>>, <<"uuid", 0>>, 0), "id"), "addedAt")

\* The setters handleMagicFill calls with a result: those of if (enriched).
SetEnriched(f, enriched) ==
  [f EXCEPT
     !.formData = MergeEnrichment(@, enriched),
     !.rawGenres = RawOf(enriched, "genre"),
     !.rawTags = RawOf(enriched, "tags"),
     !.strPages = @ \ DOMAIN enriched,
     !.merged = <<[before |-> WouldSave(f), prev |-> f.formData,
                   sug |-> enriched]>>]

ApplyEnrichmentStillLoading(f, result) ==
  IF result # <<>> THEN SetEnriched(f, result[1]) ELSE f

ApplyEnrichmentUnguarded(f, result) ==
  [SetEnriched(f, IF result # <<>> THEN result[1] ELSE <<>>)
     EXCEPT !.loadingAI = FALSE]

\* if (enriched) { ... } setLoadingAI(false); result is <<>> for null.
ApplyEnrichment(f, result) ==
  [(IF result # <<>> THEN SetEnriched(f, result[1]) ELSE f)
     EXCEPT !.loadingAI = FALSE]

AnyFormMounted(inst) == form # <<>>

\* The BookForm instance inst is the one mounted: the setFormData,
\* setRawGenres, setRawTags and setLoadingAI of handleMagicFill are those of
\* the instance whose handler ran.
IsMounted(inst) == form # <<>> /\ form[1].inst = inst

\* handleMagicFill after the await, in the BookForm instance that started it.
\* result is <<>> for null, <<enriched>> otherwise.
MagicFillDone(inst, result) ==
  /\ pc = "running"
  /\ inst \in enrichFlight
  /\ result \in {<<>>} \cup { <<e>> : e \in EnrichResults }
  /\ enrichFlight' = enrichFlight \ {inst}
  /\ IF IsMounted(inst)
     THEN form' = <<ApplyEnrichment(form[1], result)>>
     ELSE form' = form   \* the instance is unmounted: its setters do nothing
  /\ last' = [op |-> "fillDone", inst |-> inst, result |-> result,
              applied |-> IsMounted(inst)]
  /\ UNCHANGED recsVars
  /\ UNCHANGED <<pc, slot, loaded, books, view, editingBook, isImporting,
                 imageFlight, nextUuid, now, opened, ops>>

(***************************************************************************)
(* BookForm submit and App.handleSaveBook.                                 *)
(***************************************************************************)
\* books.map(b => b.id === book.id ? book : b)
ReplaceById(bs, book) ==
  [i \in 1..Len(bs) |-> IF bs[i].id = book.id THEN book ELSE bs[i]]

\* The submit button on a form the browser finds invalid: no submit event.
SubmitBlocked ==
  /\ pc = "running"
  /\ form # <<>>
  /\ ~FormValid(form[1])
  /\ last' = [op |-> "invalid"]
  /\ UNCHANGED recsVars
  /\ UNCHANGED <<pc, slot, loaded, books, view, editingBook, form,
                 enrichFlight, isImporting, imageFlight, nextUuid, now,
                 opened, ops>>

\* handleSubmit, then handleSaveBook(finalBook), then the save effect.
Submit ==
  /\ pc = "running"
  /\ form # <<>>
  /\ FormValid(form[1])
  /\ \E t \in Times :
       LET finalBook == FinalBook(form[1], editingBook, <<"uuid", nextUuid>>, t)
       IN  /\ books' = IF editingBook # <<>>
                       THEN ReplaceById(books, finalBook)
                       ELSE Append(books, finalBook)
           /\ now' = IF editingBook # <<>> /\ editingBook[1].addedAt # 0
                     THEN now ELSE t
           /\ last' = [op |-> "save", book |-> finalBook,
                       edit |-> editingBook # <<>>,
                       merged |-> form[1].merged,
                       openedFrom |-> form[1].openedFrom,
                       emptyInputs |-> { p \in PageFields :
                          InputEmpty(p, form[1].formData, form[1].strPages) }]
  /\ nextUuid' = IF editingBook # <<>> THEN nextUuid ELSE nextUuid + 1
  /\ slot' = Stringify(books')
  /\ view' = "library"
  /\ editingBook' = <<>>
  /\ form' = <<>>
  /\ UNCHANGED recsVars
  /\ UNCHANGED <<pc, loaded, enrichFlight, isImporting, imageFlight, opened,
                 ops>>

(***************************************************************************)
(* App.handleDeleteBook.                                                   *)
(***************************************************************************)
RemoveByIdInverted(bs, id) == SelectSeq(bs, LAMBDA b : b.id = id)

\* books.filter(b => b.id !== id)
RemoveById(bs, id) == SelectSeq(bs, LAMBDA b : b.id # id)

\* "Remover" on a card; ok is the answer to window.confirm.
HandleDeleteBook(i, ok) ==
  /\ pc = "running"
  /\ i \in 1..Len(books)
  /\ CardVisible(i)
  /\ ops < MaxOps
  /\ ops' = ops + 1
  /\ IF ok
     THEN /\ books' = RemoveById(books, books[i].id)
          /\ slot' = Stringify(books')
     ELSE UNCHANGED <<books, slot>>
  /\ last' = [op |-> "delete", id |-> books[i].id, ok |-> ok]
  /\ UNCHANGED recsVars
  /\ UNCHANGED <<pc, loaded, view, editingBook, form, enrichFlight,
                 isImporting, imageFlight, nextUuid, now, opened>>

(***************************************************************************)
(* App.handleLoadLegacyData.                                               *)
(***************************************************************************)
NewLegacyBooksUnfiltered(bs) == LegacyLibrary

NewLegacyBooksCaseSensitive(bs) ==
  SelectSeq(LegacyLibrary,
            LAMBDA b : b.title \notin { bs[i].title : i \in 1..Len(bs) })

\* new Set(books.map(b => b.title.toLowerCase()))
CurrentTitles(bs) == { ToLowerCase(bs[i].title) : i \in 1..Len(bs) }

\* legacyLibrary.filter(b => !currentTitles.has(b.title.toLowerCase()))
NewLegacyBooks(bs) ==
  SelectSeq(LegacyLibrary,
            LAMBDA b : ToLowerCase(b.title) \notin CurrentTitles(bs))

\* "Importar Planilha (Demo)"; ok is the answer to window.confirm.
HandleLoadLegacyData(ok) ==
  /\ pc = "running"
  /\ view = "dashboard"
  /\ Len(books) < LegacyButtonLimit
  /\ ops < MaxOps
  /\ ops' = ops + 1
  /\ LET newBooks == NewLegacyBooks(books)
     IN  /\ IF ok /\ newBooks # <<>>
            THEN /\ books' = books \o newBooks
                 /\ slot' = Stringify(books')
                 /\ view' = "library"
            ELSE UNCHANGED <<books, slot, view>>
         /\ last' = [op |-> "legacy", ok |-> ok,
                     added |-> IF ok THEN newBooks ELSE <<>>]
  /\ UNCHANGED recsVars
  /\ UNCHANGED <<pc, loaded, editingBook, form, enrichFlight, isImporting,
                 imageFlight, nextUuid, now, opened>>

(***************************************************************************)
(* App.handleImageUpload.                                                  *)
(***************************************************************************)
\* What reader.onloadend can find: no base64 payload, or the result of
\* parseWishlistImage: null, or a list of { title } objects.
ExtractResults ==
  { [kind |-> "nodata", titles |-> <<>>],
    [kind |-> "null", titles |-> <<>>],
    [kind |-> "list", titles |-> <<>>],
    [kind |-> "list", titles |-> <<TEmpty>>],
    [kind |-> "list", titles |-> <<TDUNE, TBrave>>] }

WishlistBooksInLibrary(titles, uuid, t) ==
  [k \in 1..Len(titles) |->
     [id |-> <<"uuid", uuid + k - 1>>, title |-> titles[k], author |-> TBD,
      genre |-> <<>>, tags |-> <<ImportadoViaIA>>, status |-> UNREAD,
      format |-> PHYSICAL, owner |-> ME, totalPages |-> 0,
      currentPage |-> 0, isWishlist |-> FALSE, addedAt |-> t]]

\* extractedBooks.map(b => ({ id: crypto.randomUUID(), title: b.title, ... }))
WishlistBooks(titles, uuid, t) ==
  [k \in 1..Len(titles) |->
     [id |-> <<"uuid", uuid + k - 1>>, title |-> titles[k], author |-> TBD,
      genre |-> <<>>, tags |-> <<ImportadoViaIA>>, status |-> UNREAD,
      format |-> PHYSICAL, owner |-> ME, totalPages |-> 0,
      currentPage |-> 0, isWishlist |-> TRUE, addedAt |-> t]]

AppendImportedToClosure(prev, closed, newBooks) == closed \o newBooks

\* setBooks(prev => [...prev, ...newBooks]): prev is the collection at the
\* time the update is applied, closed the books of the handler's render.
AppendImported(prev, closed, newBooks) == prev \o newBooks

\* The file input's onChange with a file chosen, up to reader.readAsDataURL.
ImageUploadStart ==
  /\ pc = "running"
  /\ view = "wishlist"
  /\ ~isImporting
  /\ ops < MaxOps
  /\ ops' = ops + 1
  /\ isImporting' = TRUE
  /\ imageFlight' = <<books>>
  /\ last' = [op |-> "other"]
  /\ UNCHANGED recsVars
  /\ UNCHANGED <<pc, slot, loaded, books, view, editingBook, form,
                 enrichFlight, nextUuid, now, opened>>

\* reader.onloadend
ImageUploadDone(r) ==
  /\ pc = "running"
  /\ imageFlight # <<>>
  /\ r \in ExtractResults
  /\ imageFlight' = <<>>
  /\ isImporting' = FALSE
  /\ IF r.kind = "list" /\ Len(r.titles) > 0
     THEN \E t \in Times :
            LET newBooks == WishlistBooks(r.titles, nextUuid, t)
            IN  /\ books' = AppendImported(books, imageFlight[1], newBooks)
                /\ slot' = Stringify(books')
                /\ nextUuid' = nextUuid + Len(r.titles)
                /\ now' = t
                /\ last' = [op |-> "uploadDone", result |-> r,
                            added |-> newBooks,
                            inFlight |-> books # imageFlight[1]]
     ELSE /\ UNCHANGED <<books, slot, nextUuid, now>>
          /\ last' = [op |-> "uploadDone", result |-> r, added |-> <<>>,
                      inFlight |-> books # imageFlight[1]]
  /\ UNCHANGED recsVars
  /\ UNCHANGED <<pc, loaded, view, editingBook, form, enrichFlight, opened,
                 ops>>

(***************************************************************************)
(* App.generateRecs and geminiService.getRecommendations.                  *)
(***************************************************************************)
ErroAoGerar == "Erro ao gerar recomendacoes."

\* What getRecommendations(books) resolves to: [] at once for no books;
\* otherwise [] for an empty response text, the parsed list of tips, or the
\* one-element list its catch block returns.
RecResults(noBooks) ==
  IF noBooks THEN { <<>> }
  ELSE { <<>>, <<"Duna Messias by Frank Herbert">>, <<ErroAoGerar>> }

\* "Gerar Dicas": generateRecs up to the await.
GenerateRecsStart ==
  /\ pc = "running"
  /\ ~loadingRecs
  /\ ops < MaxOps
  /\ ops' = ops + 1
  /\ loadingRecs' = TRUE
  /\ recsFlight' = <<books = <<>> >>
  /\ last' = [op |-> "other"]
  /\ UNCHANGED <<pc, slot, loaded, books, view, editingBook, form,
                 enrichFlight, isImporting, imageFlight, nextUuid, now,
                 opened, recommendations>>

\* generateRecs after the await: setRecommendations(recs); setLoadingRecs(false)
GenerateRecsDone(recs) ==
  /\ pc = "running"
  /\ recsFlight # <<>>
  /\ recs \in RecResults(recsFlight[1])
  /\ recsFlight' = <<>>
  /\ recommendations' = recs
  /\ loadingRecs' = FALSE
  /\ last' = [op |-> "recsDone", result |-> recs]
  /\ UNCHANGED <<pc, slot, loaded, books, view, editingBook, form,
                 enrichFlight, isImporting, imageFlight, nextUuid, now,
                 opened, ops>>

(***************************************************************************)
(* LibraryStats: the page totals of the dashboard.                         *)
(***************************************************************************)
\* (b.totalPages || 0)
OrZero(b, f) == IF Has(b, f) /\ b[f] # 0 THEN b[f] ELSE 0

LibraryBooksAll(bs) == bs

\* books.filter(b => !b.isWishlist)
LibraryBooks(bs) == SelectSeq(bs, LAMBDA b : ~IsWishlist(b))

\* lib.reduce((acc, b) => acc + (b.totalPages || 0), 0) over the first k
RECURSIVE ReduceTotalPages(_, _)
ReduceTotalPages(lib, k) ==
  IF k = 0 THEN 0
  ELSE ReduceTotalPages(lib, k - 1) + OrZero(lib[k], "totalPages")

\* lib.reduce((acc, b) => b.status === COMPLETED ? acc + (b.totalPages || 0)
\*                                               : acc + (b.currentPage || 0), 0)
RECURSIVE ReducePagesRead(_, _)
ReducePagesRead(lib, k) ==
  IF k = 0 THEN 0
  ELSE ReducePagesRead(lib, k - 1) +
         (IF lib[k].status = COMPLETED THEN OrZero(lib[k], "totalPages")
          ELSE OrZero(lib[k], "currentPage"))

TotalPages(bs) == ReduceTotalPages(LibraryBooks(bs), Len(LibraryBooks(bs)))

PagesRead(bs) == ReducePagesRead(LibraryBooks(bs), Len(LibraryBooks(bs)))

(***************************************************************************)
(* The application.                                                        *)
(***************************************************************************)
Next ==
  \/ LoadEffect
  \/ MountSaveEffect
  \/ LoadedRender
  \/ \E id \in ViewState : Navigate(id)
  \/ VerTudo
  \/ OpenAdd
  \/ \E i \in 1..Len(books) : OpenEdit(i)
  \/ Cancel
  \/ \E name \in ChangeNames : \E value \in ChangeValues(name) :
       HandleChange(name, value)
  \/ \E which \in {"rawGenres", "rawTags"} : \E value \in RawValues :
       SetRaw(which, value)
  \/ MagicFillStart
  \/ \E inst \in enrichFlight :
       \E result \in {<<>>} \cup { <<e>> : e \in EnrichResults } :
         MagicFillDone(inst, result)
  \/ SubmitBlocked
  \/ Submit
  \/ \E i \in 1..Len(books) : \E ok \in BOOLEAN : HandleDeleteBook(i, ok)
  \/ \E ok \in BOOLEAN : HandleLoadLegacyData(ok)
  \/ ImageUploadStart
  \/ \E r \in ExtractResults : ImageUploadDone(r)
  \/ GenerateRecsStart
  \/ \E recs \in RecResults(TRUE) \cup RecResults(FALSE) : GenerateRecsDone(recs)

Spec == Init /\ [][Next]_vars

\* The collaborator calls settle: generateContent resolves or rejects and
\* both are turned into a value by the service functions, FileReader always
\* fires loadend, and the continuations need no user action to run.  Each
\* completion takes its request out of flight.
CollaboratorsSettle ==
  /\ WF_imageFlight(\E r \in ExtractResults : ImageUploadDone(r))
  /\ WF_recsFlight(\E recs \in RecResults(TRUE) \cup RecResults(FALSE) :
                     GenerateRecsDone(recs))
  /\ \A inst \in 1..MaxSessions :
       WF_enrichFlight(\E result \in {<<>>} \cup { <<e>> : e \in EnrichResults } :
                         MagicFillDone(inst, result))

\* The application with the title as the only input typed into through
\* handleChange: handleMagicFill reads no other field of the form.
LiveNext ==
  \/ LoadEffect
  \/ MountSaveEffect
  \/ LoadedRender
  \/ \E id \in ViewState : Navigate(id)
  \/ VerTudo
  \/ OpenAdd
  \/ \E i \in 1..Len(books) : OpenEdit(i)
  \/ Cancel
  \/ \E value \in ChangeValues("title") : HandleChange("title", value)
  \/ \E which \in {"rawGenres", "rawTags"} : \E value \in RawValues :
       SetRaw(which, value)
  \/ MagicFillStart
  \/ \E inst \in enrichFlight :
       \E result \in {<<>>} \cup { <<e>> : e \in EnrichResults } :
         MagicFillDone(inst, result)
  \/ SubmitBlocked
  \/ Submit
  \/ \E i \in 1..Len(books) : \E ok \in BOOLEAN : HandleDeleteBook(i, ok)
  \/ \E ok \in BOOLEAN : HandleLoadLegacyData(ok)
  \/ ImageUploadStart
  \/ \E r \in ExtractResults : ImageUploadDone(r)
  \/ GenerateRecsStart
  \/ \E recs \in RecResults(TRUE) \cup RecResults(FALSE) : GenerateRecsDone(recs)

FairSpec == Init /\ [][LiveNext]_vars /\ CollaboratorsSettle

\* The application with a second BookForm instance and the form only:
\* opening, typing, enrichment, cancel and save.
LateNext ==
  \/ LoadEffect
  \/ MountSaveEffect
  \/ LoadedRender
  \/ \E id \in ViewState : Navigate(id)
  \/ OpenAddUpTo(MaxLateSessions)
  \/ \E i \in 1..Len(books) : OpenEditUpTo(i, MaxLateSessions)
  \/ Cancel
  \/ \E name \in ChangeNames : \E value \in ChangeValues(name) :
       HandleChange(name, value)
  \/ \E which \in {"rawGenres", "rawTags"} : \E value \in RawValues :
       SetRaw(which, value)
  \/ MagicFillStart
  \/ \E inst \in enrichFlight :
       \E result \in {<<>>} \cup { <<e>> : e \in EnrichResults } :
         MagicFillDone(inst, result)
  \/ Submit

LateSpec == Init /\ [][LateNext]_vars

(***************************************************************************)
(* Properties.                                                             *)
(***************************************************************************)
\* C1: in every reachable state of the collection no two records share the
\* same id.
IdsUnique ==
  \A i, j \in 1..Len(books) : i # j => books[i].id # books[j].id

\* C2: saving an edit of a record puts the submitted record, carrying the
\* record's id and addedAt, at the record's position, and leaves every other
\* record as it was.
EditReplacesOnlyTheEditedRecord ==
  [][(last'.op = "save" /\ last'.edit) =>
       \E i \in 1..Len(books) :
         /\ books[i] = editingBook[1]
         /\ last'.book.id = books[i].id
         /\ last'.book.addedAt = books[i].addedAt
         /\ books' = [books EXCEPT ![i] = last'.book]]_vars

\* normalize(title) = trim(lowercase(title))
Normalize(title) == Trim(ToLowerCase(title))

\* C3 as stated: a confirmed legacy import appends exactly the candidates
\* whose trimmed, lower-cased title is not the trimmed, lower-cased title of
\* an existing record, in candidate order.
LegacyImportDedupsByTrimmedTitle ==
  [][(last'.op = "legacy" /\ last'.ok) =>
       LET existing == { Normalize(books[i].title) : i \in 1..Len(books) }
       IN  books' = books \o
             SelectSeq(LegacyLibrary, LAMBDA c : Normalize(c.title) \notin existing)]_vars

\* C3 as amended: a confirmed legacy import appends exactly the candidates
\* whose lower-cased title (not trimmed) is not the lower-cased title of an
\* existing record, in candidate order.
LegacyImportDedupsByLowerCaseTitle ==
  [][(last'.op = "legacy" /\ last'.ok) =>
       LET existing == { ToLowerCase(books[i].title) : i \in 1..Len(books) }
       IN  books' = books \o
             SelectSeq(LegacyLibrary, LAMBDA c : ToLowerCase(c.title) \notin existing)]_vars

\* A legacy import dropped "Dune" because "DUNE" exists, and added the rest.
LegacyImportDroppedCaseVariant ==
  /\ last.op = "legacy" /\ last.ok
  /\ last.added = <<LegacyLibrary[2]>>
  /\ \E i \in 1..Len(books) : books[i].title = TDUNE

ProtectedFields == {"status", "owner", "location"}

SaveKeepsFieldsAbsentFromEnrichment ==
  (last.op = "save" /\ last.merged # <<>>) =>
    LET before == last.merged[1].before
        sug == last.merged[1].sug
    IN  \A f \in (DOMAIN before) \ (DOMAIN sug) :
          Has(last.book, f) /\ last.book[f] = before[f]

\* C6: a record committed by a form save has non-negative integer
\* totalPages and currentPage, and 0 where the form's input was empty.
SavedPagesAreNaturals ==
  last.op = "save" =>
    /\ \A p \in PageFields : last.book[p] \in Nat
    /\ \A p \in last.emptyInputs : last.book[p] = 0

\* A save from a form whose page input had been emptied.
SavedWithEmptyPageInput ==
  /\ last.op = "save"
  /\ last.emptyInputs # {}
  /\ \E i \in 1..Len(books) : books[i] = last.book

\* C7: whatever the slot holds at process start, startup does not fail, and
\* unless the slot held an array of records the collection starts empty.
StartupNeverFatal ==
  /\ pc # "crashed"
  /\ (pc = "running" /\ last.op = "mountSave") => books = <<>>
  /\ (pc = "running" /\ last.op = "loaded" /\ last.kind # "array") => books = <<>>

\* C8: once the application runs, and so after every committed mutation, the
\* slot holds the serialization of the whole collection and parsing the slot
\* gives back the collection, in order and field by field.
SlotMirrorsCollection ==
  pc = "running" =>
    /\ slot = Stringify(books)
    /\ slot.kind = "array"
    /\ Parse(slot) = books

\* An image import has just been committed to a collection of several records.
SlotWrittenAfterImageImport ==
  /\ last.op = "uploadDone"
  /\ last.added # <<>>
  /\ Len(books) > Len(last.added)
  /\ \E i \in 1..Len(books) : Has(books[i], "location")

\* C9: every record of the collection has a non-empty title.
TitlesNonEmpty ==
  \A i \in 1..Len(books) : books[i].title # TEmpty

\* C10: a confirmed delete of id leaves exactly the records with another id,
\* unchanged and in their order; a declined one leaves the collection as is.
DeleteRemovesExactlyThatId ==
  [][last'.op = "delete" =>
       LET id == last'.id
       IN  IF last'.ok
           THEN /\ \A j \in 1..Len(books') : books'[j].id # id
                /\ books' = SelectSeq(books, LAMBDA b : b.id # id)
           ELSE books' = books]_vars

\* A confirmed delete that left other records behind.
DeletedOneOfSeveral ==
  /\ last.op = "delete" /\ last.ok
  /\ Len(books) >= 1
  /\ \A j \in 1..Len(books) : books[j].id # last.id

\* title t equals, case-insensitively, the title of a wishlist record of bs.
DuplicatesWishlistTitle(t, bs) ==
  \E i \in 1..Len(bs) :
    IsWishlist(bs[i]) /\ ToLowerCase(bs[i].title) = ToLowerCase(t)

\* C11: an image import whose extraction result has two titles, exactly one
\* of which equals case-insensitively the title of an existing wishlist
\* record, adds exactly one record to the collection.
ImageImportSkipsWishlistDuplicate ==
  [][(/\ last'.op = "uploadDone"
      /\ last'.result.kind = "list"
      /\ Len(last'.result.titles) = 2
      /\ Cardinality({ k \in 1..2 :
            DuplicatesWishlistTitle(last'.result.titles[k], books) }) = 1)
     => Len(books') = Len(books) + 1]_vars

\* b.isWishlist, read as a condition, for every record of bs in order
WishlistFlags(bs) == [i \in 1..Len(bs) |-> IsWishlist(bs[i])]

\* C12: isWishlist is fixed when a record is created: true for the records of
\* an image import, the dataset's value for legacy records; and no legacy
\* import, image import, enrichment merge or delete of another record changes
\* the isWishlist of an existing record.  A form save may change only the
\* records carrying the saved id.
IsWishlistFixedAtCreation ==
  [][/\ last'.op = "uploadDone" =>
          /\ books' = books \o last'.added
          /\ \A k \in 1..Len(last'.added) : last'.added[k].isWishlist = TRUE
     /\ last'.op = "legacy" =>
          /\ books' = books \o last'.added
          /\ \A k \in 1..Len(last'.added) :
               \E c \in 1..Len(LegacyLibrary) :
                 /\ LegacyLibrary[c].id = last'.added[k].id
                 /\ IsWishlist(last'.added[k]) = IsWishlist(LegacyLibrary[c])
     /\ last'.op = "fillDone" =>
          /\ books' = books
          /\ (form # <<>> /\ form' # <<>>) =>
               IsWishlist(form'[1].formData) = IsWishlist(form[1].formData)
     /\ last'.op = "delete" =>
          WishlistFlags(books') =
            WishlistFlags(IF last'.ok
                          THEN SelectSeq(books, LAMBDA b : b.id # last'.id)
                          ELSE books)
     /\ last'.op = "save" =>
          \A i \in 1..Len(books) :
            books[i].id # last'.book.id =>
              IsWishlist(books'[i]) = IsWishlist(books[i])
     /\ last'.op \notin {"save", "delete", "loaded"} =>
          \A i \in 1..Len(books) :
            IsWishlist(books'[i]) = IsWishlist(books[i])]_vars

\* An image import has just been appended to a collection that already held a
\* wishlist record and a library record.
ImageImportJoinedMixedCollection ==
  /\ last.op = "uploadDone"
  /\ Len(last.added) = 2
  /\ \E i, j \in 1..(Len(books) - 2) :
       IsWishlist(books[i]) /\ ~IsWishlist(books[j])
  /\ \A k \in 1..2 : IsWishlist(books[Len(books) - 2 + k])

\* C13: when an image import completes, the collection becomes the collection
\* as the saves, deletes and legacy imports committed during the flight left
\* it, with the imported records appended.
ImageImportKeepsMutationsInFlight ==
  [][last'.op = "uploadDone" => books' = books \o last'.added]_vars

\* An image import has added records after the collection was changed while
\* the import was in flight.
ImageImportCompletedAfterMutation ==
  /\ last.op = "uploadDone"
  /\ last.added # <<>>
  /\ last.inFlight
  /\ Len(books) > Len(last.added)

\* C14: a collaborator call that fails or returns nothing leaves the
\* collection (and so the slot) as it was: enrichment resolving to null,
\* image extraction resolving to null, to an empty list or finding no
\* payload, and every outcome of the recommendation call.  After a null
\* enrichment the form holds what it held, its in-progress flag apart.
FailedCallsChangeNothing ==
  [][/\ (last'.op = "fillDone" /\ last'.result = <<>>) =>
          /\ books' = books /\ slot' = slot
          /\ form # <<>> =>
               form' = <<[form[1] EXCEPT !.loadingAI =
                            IF last'.applied THEN FALSE ELSE @]>>
     /\ (last'.op = "uploadDone" /\ (\/ last'.result.kind # "list"
                                     \/ last'.result.titles = <<>>)) =>
          books' = books /\ slot' = slot
     /\ last'.op = "recsDone" => books' = books /\ slot' = slot]_vars

\* Enrichment resolved to null into the form that asked for it, a form with
\* genres typed in and records in the collection.
NullEnrichmentReachedItsForm ==
  /\ last.op = "fillDone" /\ last.result = <<>> /\ last.applied
  /\ form # <<>> /\ form[1].rawGenres # <<>> /\ ~form[1].loadingAI
  /\ books # <<>>

\* The sum of field f of bs[i] over the positions i in S.
RECURSIVE SumAt(_, _, _)
SumAt(S, bs, f) ==
  IF S = {} THEN 0
  ELSE LET i == CHOOSE x \in S : TRUE
       IN  bs[i][f] + SumAt(S \ {i}, bs, f)

\* The positions of the library (non-wishlist) records, by what is counted.
LibraryCompleted(bs) ==
  { i \in 1..Len(bs) : ~IsWishlist(bs[i]) /\ bs[i].status = COMPLETED }

LibraryNotCompleted(bs) ==
  { i \in 1..Len(bs) : ~IsWishlist(bs[i]) /\ bs[i].status # COMPLETED }

\* Completed 100/100, Reading 50/200, Unread 0/0
ExampleLibrary ==
  << [status |-> COMPLETED, totalPages |-> 100, currentPage |-> 100,
      isWishlist |-> FALSE],
     [status |-> READING, totalPages |-> 200, currentPage |-> 50,
      isWishlist |-> FALSE],
     [status |-> UNREAD, totalPages |-> 0, currentPage |-> 0,
      isWishlist |-> FALSE] >>

PagesReadAsSpecified(bs) ==
  SumAt(LibraryCompleted(bs), bs, "totalPages") +
  SumAt(LibraryNotCompleted(bs), bs, "currentPage")

\* C15 as stated: pagesRead is the sum over library records of totalPages
\* when Completed and currentPage otherwise, and totalPages is the sum of the
\* totalPages of all records of the collection.
StatsTotalCountsAllRecords ==
  pc = "running" =>
    /\ PagesRead(books) = PagesReadAsSpecified(books)
    /\ TotalPages(books) = SumAt(1..Len(books), books, "totalPages")

\* C15 as amended: pagesRead is the sum over library records of totalPages
\* when Completed and currentPage otherwise, and totalPages is the sum of the
\* totalPages of the library (non-wishlist) records only; the example gives
\* 150 and 300.
StatsTotalCountsLibraryRecords ==
  /\ PagesRead(ExampleLibrary) = 150 /\ TotalPages(ExampleLibrary) = 300
  /\ pc = "running" =>
       /\ PagesRead(books) = PagesReadAsSpecified(books)
       /\ TotalPages(books) =
            SumAt(LibraryCompleted(books) \cup LibraryNotCompleted(books),
                  books, "totalPages")

\* The collection holds a wishlist record with pages, and library records
\* some Completed and some not, with pages read.
WishlistRecordHasPages ==
  /\ pc = "running"
  /\ \E i \in 1..Len(books) : IsWishlist(books[i]) /\ books[i].totalPages > 0
  /\ LibraryCompleted(books) # {} /\ LibraryNotCompleted(books) # {}
  /\ PagesRead(books) > 0 /\ TotalPages(books) > PagesRead(books)

\* Every candidate of the legacy dataset has, case-insensitively, the title
\* of a record of bs.
AllLegacyTitlesExist(bs) ==
  \A c \in 1..Len(LegacyLibrary) :
    \E i \in 1..Len(bs) :
      ToLowerCase(bs[i].title) = ToLowerCase(LegacyLibrary[c].title)

\* C16: a confirmed legacy import run while every candidate's title exists in
\* the collection changes neither the collection nor the view; and after a
\* confirmed legacy import every candidate's title exists, so that a second
\* import adds no record.
LegacyImportIsIdempotent ==
  [][(last'.op = "legacy" /\ last'.ok) =>
       /\ AllLegacyTitlesExist(books) =>
            /\ last'.added = <<>>
            /\ books' = books /\ slot' = slot /\ view' = view
       /\ AllLegacyTitlesExist(books')]_vars

\* A second legacy import was confirmed after a first one had added records,
\* and found nothing to import.
SecondLegacyImportAddedNothing ==
  /\ last.op = "legacy" /\ last.ok /\ last.added = <<>>
  /\ ops = 2
  /\ view = "dashboard"
  /\ \A c \in 1..Len(LegacyLibrary) :
       \E i \in 1..Len(books) : books[i] = LegacyLibrary[c]

\* C17: from process start until the application runs (and so before the
\* first user action) no step changes what the slot holds; in particular the
\* save effect of the mount commit, where the collection is still empty, does
\* not overwrite a stored collection.
SlotUntouchedDuringStartup ==
  [][(pc \in {"mount", "save", "rerender"}) => slot' = slot]_vars

\* The in-progress flag of the mounted form is set.
LoadingAI == form # <<>> /\ form[1].loadingAI

EnrichmentTouchesOnlyItsForm ==
  [][/\ last'.op = "fillDone" =>
          /\ books' = books /\ slot' = slot
          /\ (form = <<>> \/ form[1].inst # last'.inst) => form' = form
     /\ books' # books =>
          last'.op \in {"save", "delete", "legacy", "uploadDone", "loaded"}]_vars

\* The result asked by the first form arrived while the second form was
\* mounted, after the first had been saved.
LateResultMetLaterForm ==
  /\ last.op = "fillDone" /\ last.inst = 1 /\ last.result # <<>>
  /\ form # <<>> /\ form[1].inst = 2
  /\ form[1].formData.title # last.result[1].title
  /\ Len(books) > 2

\* books.filter(b => b.isWishlist).length
WishlistCount(bs) == Len(SelectSeq(bs, LAMBDA b : IsWishlist(b)))

\* C20: a form mounted by "Adicionar" starts with isWishlist false whichever
\* view the button was pressed in, and the record a save of such a form
\* appends has isWishlist false; so the number of wishlist records grows
\* only by an image import, a legacy import or the startup load.
ManualAddIsNeverWishlist ==
  [][/\ (form' # <<>> /\ editingBook' = <<>>) =>
          form'[1].formData.isWishlist = FALSE
     /\ (last'.op = "save" /\ ~last'.edit) =>
          /\ last'.book.isWishlist = FALSE
          /\ books' = Append(books, last'.book)
     /\ WishlistCount(books') > WishlistCount(books) =>
          last'.op \in {"uploadDone", "legacy", "loaded"}]_vars

\* A record was created by a form that "Adicionar" mounted from the wishlist
\* view.
AddedFromWishlistView ==
  /\ last.op = "save" /\ ~last.edit
  /\ last.openedFrom = "wishlist"
  /\ view = "library"
  /\ \E i \in 1..Len(books) : books[i] = last.book /\ ~IsWishlist(books[i])

====
